---- MODULE Spec2Model ----
(***************************************************************************)
(* Model of the contact-book assistant (src/main.py): the validated        *)
(* fields Phone and Birthday, Record, AddressBook (a UserDict), the        *)
(* command handlers wrapped by input_error, and the command loop main().   *)
(*                                                                         *)
(* Text is modelled as a sequence of one-character strings, a date as a    *)
(* record [year, month, day], a Phone object as [id, value] where id is    *)
(* the identity of the object (Phone defines no __eq__, so Python compares *)
(* Phone objects by identity), and the dict AddressBook.data as the        *)
(* sequence of its items in insertion order.                               *)
(***************************************************************************)
EXTENDS Integers, Sequences, FiniteSets, TLC

VARIABLES
    book,   \* the items of AddressBook.data, in insertion order
    file,   \* addressbook.pkl
    last,   \* the last call: its arguments and its outcome
    clock,  \* the system date, which date.today() returns
    pc      \* where main() is: "input", "crashed" (an exception left it), "exit"

vars == <<book, clock, file, last, pc>>

(***************************************************************************)
(* Bounds of the model.                                                    *)
(***************************************************************************)
\* most Phone objects alive in the book at one time
MaxPhones == 2
\* last year from which "today" is drawn (the first one is FirstYear)
LastYear == 2024
\* largest window of days asked of get_upcoming_birthdays
MaxWindow == 7

FirstYear == LastYear - 1

Names == {<<"A", "n", "n">>, <<"B", "o", "b">>}

(***************************************************************************)
(* Python values.                                                          *)
(***************************************************************************)
None == [none |-> TRUE]

Raise(kind) == [exc |-> kind]

IsExc(v) == "exc" \in DOMAIN v

Digits == <<"0", "1", "2", "3", "4", "5", "6", "7", "8", "9">>

IsDigit(c) == \E i \in 1..10 : Digits[i] = c

\* int() of one decimal digit
DigitVal(c) == (CHOOSE i \in 1..10 : Digits[i] = c) - 1

RECURSIVE int(_)
\* int() of a text of decimal digits
int(s) ==
    IF Len(s) = 0 THEN 0
    ELSE 10 * int(SubSeq(s, 1, Len(s) - 1)) + DigitVal(s[Len(s)])

Upper == <<"A", "B", "C", "D", "E", "F", "G", "H", "I", "J", "K", "L", "M",
           "N", "O", "P", "Q", "R", "S", "T", "U", "V", "W", "X", "Y", "Z">>

Lower == <<"a", "b", "c", "d", "e", "f", "g", "h", "i", "j", "k", "l", "m",
           "n", "o", "p", "q", "r", "s", "t", "u", "v", "w", "x", "y", "z">>

\* str.lower()
lower(s) ==
    [i \in 1..Len(s) |->
        IF \E k \in 1..26 : Upper[k] = s[i]
        THEN Lower[CHOOSE k \in 1..26 : Upper[k] = s[i]]
        ELSE s[i]]

IsSpace(c) == c \in {" ", "\n", "\t"}

RECURSIVE strip(_)
\* str.strip()
strip(s) ==
    IF Len(s) = 0 THEN s
    ELSE IF IsSpace(s[1]) THEN strip(Tail(s))
    ELSE IF IsSpace(s[Len(s)]) THEN strip(SubSeq(s, 1, Len(s) - 1))
    ELSE s

RECURSIVE word_end(_, _)
\* the last position of the word of s that starts at position i
word_end(s, i) ==
    IF i = Len(s) \/ IsSpace(s[i + 1]) THEN i ELSE word_end(s, i + 1)

RECURSIVE split_from(_, _)
\* the words of s from position i on
split_from(s, i) ==
    IF i > Len(s) THEN <<>>
    ELSE IF IsSpace(s[i]) THEN split_from(s, i + 1)
    ELSE LET n == word_end(s, i)
         IN  <<SubSeq(s, i, n)>> \o split_from(s, n + 1)

\* str.split(): the words of s between runs of whitespace
str_split(s) == split_from(s, 1)

RECURSIVE split(_, _)
\* str.split(sep) for a one-character separator
split(s, sep) ==
    IF \A i \in 1..Len(s) : s[i] # sep THEN <<s>>
    ELSE LET k == CHOOSE i \in 1..Len(s) :
                      s[i] = sep /\ \A j \in 1..(i - 1) : s[j] # sep
         IN  <<SubSeq(s, 1, k - 1)>> \o split(SubSeq(s, k + 1, Len(s)), sep)

(***************************************************************************)
(* datetime.date, as the standard library computes it.                     *)
(***************************************************************************)
is_leap(year) == (year % 4) = 0 /\ ((year % 100) # 0 \/ (year % 400) = 0)

days_in_month(year, month) ==
    IF month = 2 THEN (IF is_leap(year) THEN 29 ELSE 28)
    ELSE IF month \in {4, 6, 9, 11} THEN 30 ELSE 31

RECURSIVE days_before_month(_, _)
days_before_month(year, month) ==
    IF month = 1 THEN 0
    ELSE days_before_month(year, month - 1) + days_in_month(year, month - 1)

days_before_year(year) ==
    LET y == year - 1
    IN  y * 365 + (y \div 4) - (y \div 100) + (y \div 400)

\* date.toordinal(): 1 January of year 1 is day 1
toordinal(d) == days_before_year(d.year) + days_before_month(d.year, d.month) + d.day

\* date.weekday(): Monday is 0, Sunday is 6
weekday(d) == (toordinal(d) + 6) % 7

\* date(year, month, day): ValueError unless it is a real calendar date
date(year, month, day) ==
    IF year \in 1..9999 /\ month \in 1..12 /\ day \in 1..days_in_month(year, month)
    THEN [year |-> year, month |-> month, day |-> day]
    ELSE Raise("ValueError")

\* date.replace(year=...)
replace_year(d, year) == date(year, d.month, d.day)

\* date.__lt__
date_lt(a, b) ==
    \/ a.year < b.year
    \/ a.year = b.year /\ a.month < b.month
    \/ a.year = b.year /\ a.month = b.month /\ a.day < b.day

\* the day after d
tomorrow(d) ==
    IF d.day < days_in_month(d.year, d.month)
    THEN [d EXCEPT !.day = d.day + 1]
    ELSE IF d.month < 12
         THEN [year |-> d.year, month |-> d.month + 1, day |-> 1]
         ELSE [year |-> d.year + 1, month |-> 1, day |-> 1]

RECURSIVE date_add(_, _)
\* d + timedelta(days=n), n >= 0
date_add(d, n) == IF n = 0 THEN d ELSE date_add(tomorrow(d), n - 1)

\* (a - b).days
days_between(a, b) == toordinal(a) - toordinal(b)

\* "%02d" % n
two_digits(n) == <<Digits[((n \div 10) % 10) + 1], Digits[(n % 10) + 1]>>

\* "%04d" % n
four_digits(n) == two_digits(n \div 100) \o two_digits(n % 100)

\* date.strftime("%d.%m.%Y")
strftime(d) == two_digits(d.day) \o <<".">> \o two_digits(d.month) \o <<".">> \o four_digits(d.year)

\* the field of %d or %m in strptime: one or two digits, no "0" and no "00",
\* or (for %d only) a blank and one digit
field_matches(f, max, blank) ==
    \/ Len(f) \in {1, 2} /\ (\A i \in 1..Len(f) : IsDigit(f[i])) /\ int(f) \in 1..max
    \/ blank /\ Len(f) = 2 /\ f[1] = " " /\ IsDigit(f[2]) /\ f[2] # "0"

field_value(f) == IF f[1] = " " THEN DigitVal(f[2]) ELSE int(f)

\* datetime.strptime(value, "%d.%m.%Y").date()
strptime(value) ==
    LET f == split(value, ".")
    IN  IF /\ Len(f) = 3
           /\ field_matches(f[1], 31, TRUE)
           /\ field_matches(f[2], 12, FALSE)
           /\ Len(f[3]) = 4
           /\ \A i \in 1..4 : IsDigit(f[3][i])
        THEN date(int(f[3]), field_value(f[2]), field_value(f[1]))
        ELSE Raise("ValueError")

(***************************************************************************)
(* Fields.                                                                 *)
(***************************************************************************)
\* Phone.verify_phone: re.match(r"^[0-9]{10}$", phone_number); "$" also
\* matches before a newline that ends the text
verify_phone(phone_number) ==
    /\ Len(phone_number) >= 10
    /\ \A i \in 1..10 : IsDigit(phone_number[i])
    /\ \/ Len(phone_number) = 10
       \/ Len(phone_number) = 11 /\ phone_number[11] = "\n"

\* Phone(value): a new object, whose identity is id
Phone(value, id) ==
    IF ~verify_phone(value) THEN Raise("PhoneValidationError")
    ELSE [id |-> id, value |-> value]

\* Birthday(value)
Birthday(value) ==
    LET birthday == strptime(value)
    IN  IF IsExc(birthday) THEN Raise("ValueError") ELSE birthday

(***************************************************************************)
(* list and dict, for the uses the program makes of them.                  *)
(***************************************************************************)
\* a == b for two Phone objects or None: object.__eq__, that is identity
phone_eq(a, b) == a # None /\ b # None /\ a.id = b.id

\* x in list
list_contains(list, x) == \E i \in 1..Len(list) : phone_eq(list[i], x)

\* list.index(x), x in the list
list_index(list, x) ==
    CHOOSE i \in 1..Len(list) :
        phone_eq(list[i], x) /\ \A j \in 1..(i - 1) : ~phone_eq(list[j], x)

\* list.remove(x), x in the list: the list without its first item equal to x
list_remove(list, x) ==
    LET i == list_index(list, x)
    IN  SubSeq(list, 1, i - 1) \o SubSeq(list, i + 1, Len(list))

\* key in data.keys()
dict_contains(data, key) == \E i \in 1..Len(data) : data[i].key = key

dict_index(data, key) == CHOOSE i \in 1..Len(data) : data[i].key = key

\* data.get(key, default)
dict_get(data, key, default) ==
    IF dict_contains(data, key) THEN data[dict_index(data, key)].value ELSE default

\* data[key] = value: a present key keeps its place, a new one goes last
dict_setitem(data, key, value) ==
    IF dict_contains(data, key)
    THEN [data EXCEPT ![dict_index(data, key)].value = value]
    ELSE Append(data, [key |-> key, value |-> value])

\* del data[key], key in the dict
dict_delitem(data, key) ==
    LET i == dict_index(data, key)
    IN  SubSeq(data, 1, i - 1) \o SubSeq(data, i + 1, Len(data))

(***************************************************************************)
(* Record.  A method yields [self |-> the record after the call,           *)
(* out |-> "ok" or the exception it raises].                               *)
(***************************************************************************)
\* Record(name)
Record(name) == [name |-> name, phones |-> <<>>, birthday |-> None]

\* Record.find_phone: falls off the end (None) when no phone has the value
find_phone(self, phone_number) ==
    IF \E i \in 1..Len(self.phones) : self.phones[i].value = phone_number
    THEN self.phones[CHOOSE i \in 1..Len(self.phones) :
                        /\ self.phones[i].value = phone_number
                        /\ \A j \in 1..(i - 1) : self.phones[j].value # phone_number]
    ELSE None

\* Record.check_duplicate: id is the identity of the Phone it constructs
check_duplicate(self, phone_number, id) ==
    LET phone == Phone(phone_number, id)
    IN  IF IsExc(phone) THEN phone
        ELSE IF list_contains(self.phones, phone) THEN Raise("NotUniquePhoneError")
        ELSE phone

\* Record.add_phone
Record_add_phone(self, phone_number, id) ==
    LET phone == check_duplicate(self, phone_number, id)
    IN  IF IsExc(phone) THEN [self |-> self, out |-> phone.exc]
        ELSE [self |-> [self EXCEPT !.phones = Append(@, phone)], out |-> "ok"]

\* edit_phone as a removal of the old phone and an append of the new one
Record_edit_phone_append(self, old_phone_number, new_phone_number, id) ==
    LET old_phone == find_phone(self, old_phone_number)
    IN  IF old_phone # None
        THEN LET phone == check_duplicate(self, new_phone_number, id)
             IN  IF IsExc(phone) THEN [self |-> self, out |-> phone.exc]
                 ELSE [self |-> [self EXCEPT
                                   !.phones = Append(list_remove(@, old_phone), phone)],
                       out |-> "ok"]
        ELSE [self |-> self, out |-> "ValueError"]

\* Record.edit_phone
Record_edit_phone(self, old_phone_number, new_phone_number, id) ==
    LET old_phone == find_phone(self, old_phone_number)
    IN  IF old_phone # None
        THEN LET phone == check_duplicate(self, new_phone_number, id)
             IN  IF IsExc(phone) THEN [self |-> self, out |-> phone.exc]
                 ELSE [self |-> [self EXCEPT
                                   !.phones[list_index(self.phones, old_phone)] = phone],
                       out |-> "ok"]
        ELSE [self |-> self, out |-> "ValueError"]

\* Record.remove_phone: list.remove raises ValueError for an item (here the
\* None of find_phone) that is not in the list
Record_remove_phone(self, phone_number) ==
    LET phone == find_phone(self, phone_number)
    IN  IF ~list_contains(self.phones, phone) THEN [self |-> self, out |-> "ValueError"]
        ELSE [self |-> [self EXCEPT !.phones = list_remove(@, phone)], out |-> "ok"]

\* Record.add_birthday
Record_add_birthday(self, date_of_birth) ==
    LET birthday == Birthday(date_of_birth)
    IN  IF IsExc(birthday) THEN [self |-> self, out |-> birthday.exc]
        ELSE [self |-> [self EXCEPT !.birthday = birthday], out |-> "ok"]

(***************************************************************************)
(* AddressBook.  A method yields [data |-> the items after the call,       *)
(* out |-> "ok" or the exception it raises].                               *)
(***************************************************************************)
\* add_record without the test for a present name
add_record_overwrite(data, record) ==
    [data |-> dict_setitem(data, record.name, record), out |-> "ok"]

\* AddressBook.add_record
add_record(data, record) ==
    IF ~dict_contains(data, record.name)
    THEN [data |-> dict_setitem(data, record.name, record), out |-> "ok"]
    ELSE [data |-> data, out |-> "ValueError"]

\* AddressBook.find
find(data, name) == dict_get(data, name, None)

\* delete that passes over an absent name, as data.pop(name, None) would
delete_silent(data, name) ==
    IF ~dict_contains(data, name) THEN [data |-> data, out |-> "ok"]
    ELSE [data |-> dict_delitem(data, name), out |-> "ok"]

\* AddressBook.delete: del raises KeyError for a key that is not in the dict
delete(data, name) ==
    IF ~dict_contains(data, name) THEN [data |-> data, out |-> "KeyError"]
    ELSE [data |-> dict_delitem(data, name), out |-> "ok"]

\* the identities of the Phone objects alive in the book
live_ids(data) ==
    {data[i].value.phones[j].id :
        <<i, j>> \in {ij \in (1..Len(data)) \X (1..MaxPhones) :
                        ij[2] <= Len(data[ij[1]].value.phones)}}

\* the identity a newly allocated Phone gets: one no live object has
new_id(data) == CHOOSE id \in 1..(MaxPhones + 1) :
                    /\ id \notin live_ids(data)
                    /\ \A k \in 1..(id - 1) : k \in live_ids(data)

\* the number of Phone objects in the book
phone_count(data) == Cardinality(live_ids(data))

\* find_next_weekday with the operands of the subtraction exchanged
find_next_weekday_swapped(start_date, wd) ==
    LET days_ahead == weekday(start_date) - wd
    IN  date_add(start_date, IF days_ahead <= 0 THEN days_ahead + 7 ELSE days_ahead)

\* AddressBook.find_next_weekday
find_next_weekday(start_date, wd) ==
    LET days_ahead == wd - weekday(start_date)
    IN  date_add(start_date, IF days_ahead <= 0 THEN days_ahead + 7 ELSE days_ahead)

\* adjust_for_weekend that takes only Sunday for the weekend
adjust_for_weekend_sunday_only(birthday) ==
    IF weekday(birthday) > 5 THEN find_next_weekday(birthday, 0) ELSE birthday

\* AddressBook.adjust_for_weekend
adjust_for_weekend(birthday) ==
    IF weekday(birthday) >= 5 THEN find_next_weekday(birthday, 0) ELSE birthday

\* AddressBook.date_to_string
date_to_string(d) == strftime(d)

\* the occurrence of a birthday that get_upcoming_birthdays compares with
\* today: a date, or the ValueError of date.replace
birthday_this_year(birthday, today) ==
    LET this_year == replace_year(birthday, today.year)
    IN  IF IsExc(this_year) THEN this_year
        ELSE IF date_lt(this_year, today) THEN replace_year(this_year, today.year + 1)
        ELSE this_year

\* the test that admits a contact to the list
in_window(occurrence, today, days) ==
    0 <= days_between(occurrence, today) /\ days_between(occurrence, today) <= days

RECURSIVE upcoming_loop(_, _, _, _, _)
\* the loop of get_upcoming_birthdays from item i on; an entry of the list
\* "<name> has congratulation date on <date>" is [name, date]
upcoming_loop(data, i, today, days, upcoming_birthdays) ==
    IF i > Len(data) THEN [out |-> "ok", ret |-> upcoming_birthdays]
    ELSE IF data[i].value.birthday = None
         THEN upcoming_loop(data, i + 1, today, days, upcoming_birthdays)
    ELSE LET occurrence == birthday_this_year(data[i].value.birthday, today)
         IN  IF IsExc(occurrence) THEN [out |-> occurrence.exc, ret |-> <<>>]
             ELSE IF in_window(occurrence, today, days)
                  THEN upcoming_loop(data, i + 1, today, days,
                           Append(upcoming_birthdays,
                                  [name |-> data[i].key,
                                   date |-> date_to_string(adjust_for_weekend(occurrence))]))
             ELSE upcoming_loop(data, i + 1, today, days, upcoming_birthdays)

\* AddressBook.get_upcoming_birthdays, with date.today() = today
get_upcoming_birthdays(data, today, days) == upcoming_loop(data, 1, today, days, <<>>)

(***************************************************************************)
(* The command handlers.  A handler yields [data |-> the book after the    *)
(* call, out |-> "ok" or the exception raised in its body, raised |->      *)
(* whether that exception leaves the call, ret |-> the returned message].  *)
(***************************************************************************)
Caught == {"NotUniquePhoneError", "PhoneValidationError", "ValueError", "KeyError",
           "ContactNotFound"}

\* the text input_error returns for an exception it catches
message(exc) ==
    IF exc = "NotUniquePhoneError" THEN "The phone number already exists"
    ELSE IF exc = "PhoneValidationError" THEN "Phone should contain 10 numbers."
    ELSE IF exc \in {"ValueError", "KeyError"} THEN "Invalid parameters."
    ELSE "Record not found."

\* input_error: the decorator around a handler whose body yielded r
input_error(r) ==
    IF r.out \in Caught
    THEN [data |-> r.data, out |-> r.out, raised |-> FALSE, ret |-> message(r.out)]
    ELSE [data |-> r.data, out |-> r.out, raised |-> r.out # "ok", ret |-> r.ret]

\* the record stored under name, mutated in place to record
update_record(data, name, record) == dict_setitem(data, name, record)

\* add_contact
add_contact(args, data) ==
    input_error(
        IF Len(args) < 2 THEN [data |-> data, out |-> "ValueError", ret |-> ""]
        ELSE LET name == args[1]
                 phone == args[2]
                 found == find(data, name)
                 added == IF found = None THEN add_record(data, Record(name)).data ELSE data
                 msg == IF found = None THEN "Contact added." ELSE "Contact updated."
             IN  IF Len(phone) > 0
                 THEN LET r == Record_add_phone(find(added, name), phone, new_id(added))
                      IN  [data |-> update_record(added, name, r.self), out |-> r.out,
                           ret |-> msg]
                 ELSE [data |-> added, out |-> "ok", ret |-> msg])

\* change_contact
change_contact(args, data) ==
    input_error(
        IF Len(args) < 3 THEN [data |-> data, out |-> "ValueError", ret |-> ""]
        ELSE LET name == args[1]
                 record == find(data, name)
             IN  IF record = None THEN [data |-> data, out |-> "ContactNotFound", ret |-> ""]
                 ELSE LET r == Record_edit_phone(record, args[2], args[3], new_id(data))
                      IN  [data |-> update_record(data, name, r.self), out |-> r.out,
                           ret |-> "Phone updated."])

\* show_phones
show_phones(args, data) ==
    input_error(
        IF Len(args) < 1 THEN [data |-> data, out |-> "ValueError", ret |-> ""]
        ELSE IF find(data, args[1]) = None
             THEN [data |-> data, out |-> "ContactNotFound", ret |-> ""]
        ELSE [data |-> data, out |-> "ok", ret |-> "Phones for"])

\* show_all_contacts
show_all_contacts(data) == [data |-> data, out |-> "ok", raised |-> FALSE, ret |-> "all"]

\* add_birthday
add_birthday(args, data) ==
    input_error(
        IF Len(args) < 2 THEN [data |-> data, out |-> "ValueError", ret |-> ""]
        ELSE LET name == args[1]
                 record == find(data, name)
             IN  IF record = None THEN [data |-> data, out |-> "ContactNotFound", ret |-> ""]
                 ELSE LET r == Record_add_birthday(record, args[2])
                      IN  [data |-> update_record(data, name, r.self), out |-> r.out,
                           ret |-> "The birthday was set"])

\* show_birthday
show_birthday(args, data) ==
    input_error(
        IF Len(args) < 1 THEN [data |-> data, out |-> "ValueError", ret |-> ""]
        ELSE IF find(data, args[1]) = None
             THEN [data |-> data, out |-> "ContactNotFound", ret |-> ""]
        ELSE [data |-> data, out |-> "ok", ret |-> "The birthday is"])

\* show_birthdays: not wrapped by input_error
show_birthdays(data, today) ==
    LET r == get_upcoming_birthdays(data, today, 7)
    IN  [data |-> data, out |-> r.out, raised |-> r.out # "ok", ret |-> "birthdays"]

(***************************************************************************)
(* Inputs.                                                                 *)
(***************************************************************************)
PhoneA == <<"0", "5", "0", "1", "2", "3", "4", "5", "6", "7">>

PhoneB == <<"0", "6", "7", "1", "1", "1", "2", "2", "3", "3">>

PhoneC == <<"0", "9", "3", "9", "8", "7", "6", "5", "4", "3">>

BadPhone == <<"0", "5", "0", "1", "2", "3", "4", "5", "a", "b">>

PhoneInputs == {PhoneA, PhoneB, PhoneC, BadPhone}

CorePhoneInputs == {PhoneA, BadPhone}

MainNames == {CHOOSE n \in Names : TRUE}

June15 == <<"1", "5", ".", "0", "6", ".", "1", "9", "9", "0">>

June16 == <<"1", "6", ".", "0", "6", ".", "1", "9", "8", "5">>

Feb29 == <<"2", "9", ".", "0", "2", ".", "2", "0", "0", "0">>

Jan1 == <<"0", "1", ".", "0", "1", ".", "1", "9", "9", "0">>

March1 == <<"1", ".", "3", ".", "1", "9", "9", "1">>

BadDate == <<"1", "9", "9", "0", "-", "0", "6", "-", "1", "5">>

BadBirthdays == {BadDate, <<"2", "9", ".", "0", "2", ".", "1", "9", "9", "9">>}

CoreBirthdayInputs == {June15, <<"3", "0", ".", "0", "2", ".", "2", "0", "0", "0">>}

BirthdayInputs == {June15, June16, Feb29, Jan1, March1} \cup BadBirthdays

\* the days on which the program is run: 1-2 January, 20 February to
\* 2 March, 8-17 June and 25-31 December of each year
Todays ==
    {d \in [year : FirstYear..LastYear, month : {1, 2, 3, 6, 12}, day : 1..31] :
        /\ d.day <= days_in_month(d.year, d.month)
        /\ d.month \in {1, 3} => d.day <= 2
        /\ d.month = 2 => d.day >= 20
        /\ d.month = 6 => d.day \in 8..17
        /\ d.month = 12 => d.day >= 25}

Today0 == [year |-> LastYear, month |-> 6, day |-> 10]

Windows == {0, 1, MaxWindow}

(***************************************************************************)
(* The library: calls of the methods of AddressBook and of the Records it  *)
(* holds, and of add_contact.                                              *)
(***************************************************************************)
\* load_data() without a file: an empty AddressBook
Start ==
    /\ book = <<>>
    /\ file = [exists |-> FALSE, book |-> <<>>]
    /\ last = [op |-> "load_data", args |-> <<>>, out |-> "ok"]
    /\ pc = "input"

Init == Start /\ clock = Today0

\* book.add_record(Record(name))
AddRecord(name) ==
    LET r == add_record(book, Record(name))
    IN  /\ book' = r.data
        /\ last' = [op |-> "add_record", args |-> <<name>>, out |-> r.out]
        /\ UNCHANGED <<clock, file, pc>>

\* book.delete(name)
Delete(name) ==
    LET r == delete(book, name)
    IN  /\ book' = r.data
        /\ last' = [op |-> "delete", args |-> <<name>>, out |-> r.out]
        /\ UNCHANGED <<clock, file, pc>>

\* book.find(name)
Find(name) ==
    /\ last' = [op |-> "find", args |-> <<name>>, out |-> "ok", ret |-> find(book, name)]
    /\ UNCHANGED <<book, clock, file, pc>>

\* book.find(name).add_phone(phone_number)
AddPhone(name, phone_number) ==
    /\ dict_contains(book, name)
    /\ phone_count(book) < MaxPhones
    /\ LET r == Record_add_phone(find(book, name), phone_number, new_id(book))
       IN  /\ book' = update_record(book, name, r.self)
           /\ last' = [op |-> "add_phone", args |-> <<name, phone_number>>, out |-> r.out]
    /\ UNCHANGED <<clock, file, pc>>

\* book.find(name).edit_phone(old_phone_number, new_phone_number)
EditPhone(name, old_phone_number, new_phone_number) ==
    /\ dict_contains(book, name)
    /\ LET r == Record_edit_phone(find(book, name), old_phone_number, new_phone_number,
                                  new_id(book))
       IN  /\ book' = update_record(book, name, r.self)
           /\ last' = [op |-> "edit_phone",
                       args |-> <<name, old_phone_number, new_phone_number>>,
                       out |-> r.out]
    /\ UNCHANGED <<clock, file, pc>>

\* book.find(name).remove_phone(phone_number)
RemovePhone(name, phone_number) ==
    /\ dict_contains(book, name)
    /\ LET r == Record_remove_phone(find(book, name), phone_number)
       IN  /\ book' = update_record(book, name, r.self)
           /\ last' = [op |-> "remove_phone", args |-> <<name, phone_number>>,
                       out |-> r.out]
    /\ UNCHANGED <<clock, file, pc>>

\* book.find(name).add_birthday(date_of_birth)
AddBirthday(name, date_of_birth) ==
    /\ dict_contains(book, name)
    /\ LET r == Record_add_birthday(find(book, name), date_of_birth)
       IN  /\ book' = update_record(book, name, r.self)
           /\ last' = [op |-> "add_birthday", args |-> <<name, date_of_birth>>,
                       out |-> r.out]
    /\ UNCHANGED <<clock, file, pc>>

\* add_contact(args, book)
AddContact(args) ==
    /\ phone_count(book) < MaxPhones
    /\ LET r == add_contact(args, book)
       IN  /\ book' = r.data
           /\ last' = [op |-> "add_contact", args |-> args, out |-> r.out]
    /\ UNCHANGED <<clock, file, pc>>

\* book.get_upcoming_birthdays(days)
GetUpcomingBirthdays(days) ==
    /\ LET r == get_upcoming_birthdays(book, clock, days)
       IN  last' = [op |-> "get_upcoming_birthdays", args |-> <<>>, days |-> days,
                    out |-> r.out, ret |-> r.ret]
    /\ UNCHANGED <<book, clock, file, pc>>

Next ==
    \/ \E name \in Names : AddRecord(name)
    \/ \E name \in Names : Delete(name)
    \/ \E name \in Names : Find(name)
    \/ \E name \in Names, phone \in CorePhoneInputs : AddPhone(name, phone)
    \/ \E name \in Names, old \in CorePhoneInputs, new \in CorePhoneInputs :
           EditPhone(name, old, new)
    \/ \E name \in Names, phone \in CorePhoneInputs : RemovePhone(name, phone)
    \/ \E name \in Names, text \in CoreBirthdayInputs : AddBirthday(name, text)
    \/ \E name \in Names : AddContact(<<name>>)
    \/ \E name \in Names, phone \in CorePhoneInputs : AddContact(<<name, phone>>)

Spec == Init /\ [][Next]_vars

(***************************************************************************)
(* One Record: the calls of its phone methods, with more numbers.          *)
(***************************************************************************)
NextRecord ==
    \/ \E name \in MainNames : AddRecord(name)
    \/ \E name \in MainNames, phone \in PhoneInputs : AddPhone(name, phone)
    \/ \E name \in MainNames, old \in PhoneInputs, new \in PhoneInputs :
           EditPhone(name, old, new)
    \/ \E name \in MainNames, phone \in PhoneInputs : RemovePhone(name, phone)

SpecRecord == Init /\ [][NextRecord]_vars

(***************************************************************************)
(* The birthday query, on the books that add_record, add_birthday and      *)
(* delete build.                                                           *)
(***************************************************************************)
NextBirthdays ==
    \/ \E name \in Names : AddRecord(name)
    \/ \E name \in Names : Delete(name)
    \/ \E name \in Names, text \in BirthdayInputs : AddBirthday(name, text)
    \/ \E days \in Windows : GetUpcomingBirthdays(days)

InitBirthdays == Start /\ clock \in Todays

SpecBirthdays == InitBirthdays /\ [][NextBirthdays]_vars

(***************************************************************************)
(* The words of the command language.                                      *)
(***************************************************************************)
CMD_hello == <<"h", "e", "l", "l", "o">>

CMD_add == <<"a", "d", "d">>

CMD_Add == <<"A", "d", "d">>

CMD_change == <<"c", "h", "a", "n", "g", "e">>

CMD_phone == <<"p", "h", "o", "n", "e">>

CMD_all == <<"a", "l", "l">>

CMD_addbirthday == <<"a", "d", "d", "-", "b", "i", "r", "t", "h", "d", "a", "y">>

CMD_showbirthday == <<"s", "h", "o", "w", "-", "b", "i", "r", "t", "h", "d", "a", "y">>

CMD_birthdays == <<"b", "i", "r", "t", "h", "d", "a", "y", "s">>

CMD_close == <<"c", "l", "o", "s", "e">>

CMD_exit == <<"e", "x", "i", "t">>

CMD_EXIT == <<"E", "X", "I", "T">>

CMD_bye == <<"b", "y", "e">>

(***************************************************************************)
(* The command loop.                                                       *)
(***************************************************************************)
RECURSIVE join(_)
\* " ".join(words)
join(words) ==
    IF Len(words) = 0 THEN <<>>
    ELSE IF Len(words) = 1 THEN words[1]
    ELSE words[1] \o <<" ">> \o join(Tail(words))

MainBirthdayInputs == {June15, Feb29, BadDate}

\* the lines typed at the prompt
Lines ==
    {<<>>, <<" ">>, CMD_hello, CMD_bye, CMD_all, CMD_birthdays, CMD_close, CMD_exit,
     CMD_EXIT, CMD_add, CMD_change, CMD_phone, CMD_addbirthday, CMD_showbirthday}
    \cup {join(<<c, n>>) :
            c \in {CMD_add, CMD_change, CMD_phone, CMD_addbirthday, CMD_showbirthday},
            n \in MainNames}
    \cup {join(<<c, n, p>>) : c \in {CMD_add, CMD_Add}, n \in MainNames, p \in CorePhoneInputs}
    \cup {join(<<CMD_change, n, p, q>>) :
            n \in MainNames, p \in CorePhoneInputs, q \in CorePhoneInputs}
    \cup {join(<<CMD_addbirthday, n, t>>) : n \in MainNames, t \in MainBirthdayInputs}

\* the days on which the command loop is run
MainTodays == {Today0, [year |-> FirstYear, month |-> 3, day |-> 1]}

\* parse_input: the words of the line, the first one lower-cased, or the
\* ValueError of unpacking no word at all
parse_input(user_input) ==
    LET words == str_split(user_input)
    IN  IF Len(words) = 0 THEN [out |-> "ValueError", ret |-> <<>>]
        ELSE [out |-> "ok", ret |-> <<lower(strip(words[1]))>> \o Tail(words)]

\* the branch of main() for a command: what the handler yields
dispatch(command, args, data, today) ==
    IF command = CMD_hello
    THEN [data |-> data, out |-> "ok", raised |-> FALSE, ret |-> "How can I help you?"]
    ELSE IF command = CMD_add THEN add_contact(args, data)
    ELSE IF command = CMD_change THEN change_contact(args, data)
    ELSE IF command = CMD_phone THEN show_phones(args, data)
    ELSE IF command = CMD_all THEN show_all_contacts(data)
    ELSE IF command = CMD_addbirthday THEN add_birthday(args, data)
    ELSE IF command = CMD_showbirthday THEN show_birthday(args, data)
    ELSE IF command = CMD_birthdays THEN show_birthdays(data, today)
    ELSE [data |-> data, out |-> "ok", raised |-> FALSE, ret |-> "Invalid command."]

\* one turn of the loop of main(): read a line, parse it, run the command
Main(user_input) ==
    /\ pc = "input"
    /\ ~(/\ phone_count(book) >= MaxPhones
         /\ Len(str_split(user_input)) >= 3
         /\ lower(str_split(user_input)[1]) = CMD_add)
    /\ LET parsed == parse_input(user_input)
       IN  IF parsed.out # "ok"
           THEN /\ pc' = "crashed"
                /\ last' = [op |-> "main", args |-> <<user_input>>, out |-> parsed.out,
                            ret |-> ""]
                /\ UNCHANGED <<book, file>>
           ELSE IF parsed.ret[1] \in {CMD_close, CMD_exit}
           THEN /\ pc' = "exit"
                /\ file' = [exists |-> TRUE, book |-> book]
                /\ last' = [op |-> "main", args |-> <<user_input>>, out |-> "ok",
                            ret |-> "Good bye!"]
                /\ UNCHANGED book
           ELSE LET r == dispatch(parsed.ret[1], Tail(parsed.ret), book, clock)
                IN  /\ book' = r.data
                    /\ pc' = IF r.raised THEN "crashed" ELSE "input"
                    /\ last' = [op |-> "main", args |-> <<user_input>>, out |-> r.out,
                                ret |-> IF r.raised THEN "" ELSE r.ret]
                    /\ UNCHANGED file
    /\ UNCHANGED clock

NextMain == \E user_input \in Lines : Main(user_input)

InitMain == Start /\ clock \in MainTodays

SpecMain == InitMain /\ [][NextMain]_vars

(***************************************************************************)
(* Properties.                                                             *)
(***************************************************************************)
\* C1: no two entries of a Record's phones list hold the same digit string
\* (an add_phone of a number already present is refused).
C1_NoDuplicatePhones ==
    \A i \in 1..Len(book) :
        \A j, k \in 1..Len(book[i].value.phones) :
            j # k => book[i].value.phones[j].value # book[i].value.phones[k].value

\* C2: every call that fails (add_phone, edit_phone, remove_phone,
\* add_birthday, add_record, delete, add_contact) leaves the book as it was.
C2_FailureLeavesStateUnchanged ==
    [][last'.out # "ok" => book' = book]_vars

\* the occurrences of the month and day of birthday b in the year of today
\* and in the next one that are not before today
Occurrences(b, today) ==
    {d \in [year : {today.year, today.year + 1}, month : {b.month}, day : {b.day}] :
        d.day <= days_in_month(d.year, d.month) /\ toordinal(d) >= toordinal(today)}

\* d is the first occurrence of birthday b on or after today
IsOccurrence(d, b, today) ==
    /\ d \in Occurrences(b, today)
    /\ \A e \in Occurrences(b, today) : toordinal(d) <= toordinal(e)

\* the day of the week of d, Monday 0 to Sunday 6, counted from Monday
\* 1 January 2001
DayOfWeek(d) == (toordinal(d) - toordinal([year |-> 2001, month |-> 1, day |-> 1])) % 7

\* how many entries of the list of the last query name the contact
TimesListed(name) == Cardinality({k \in 1..Len(last.ret) : last.ret[k].name = name})

\* C3: get_upcoming_birthdays returns a list that holds a contact exactly
\* once if it has a birthday whose first occurrence on or after today is at
\* most days days away, and not at all otherwise.
C3_ListedIffInWindow ==
    last.op = "get_upcoming_birthdays" =>
        /\ last.out = "ok"
        /\ \A i \in 1..Len(book) :
               LET b == book[i].value.birthday
                   due == /\ b # None
                          /\ \E d \in Occurrences(b, clock) :
                                 /\ IsOccurrence(d, b, clock)
                                 /\ toordinal(d) - toordinal(clock) \in 0..last.days
               IN  TimesListed(book[i].key) = IF due THEN 1 ELSE 0

\* C4: the date reported for a listed contact is the occurrence of the
\* birthday when that is a Monday to Friday, two days later when it is a
\* Saturday and one day later when it is a Sunday; for today 10.06.2024 and
\* the birthday 15.06.1990 it is 17.06.2024.
C4_CongratulationDate ==
    (last.op = "get_upcoming_birthdays" /\ last.out = "ok") =>
        \A k \in 1..Len(last.ret) :
            LET b == find(book, last.ret[k].name).birthday
            IN  /\ \E d \in Occurrences(b, clock) :
                       /\ IsOccurrence(d, b, clock)
                       /\ last.ret[k].date =
                              strftime(IF DayOfWeek(d) = 5 THEN date_add(d, 2)
                                       ELSE IF DayOfWeek(d) = 6 THEN date_add(d, 1)
                                       ELSE d)
                /\ (/\ clock = [year |-> 2024, month |-> 6, day |-> 10]
                    /\ b = [year |-> 1990, month |-> 6, day |-> 15])
                       => last.ret[k].date = <<"1", "7", ".", "0", "6", ".", "2", "0", "2", "4">>

\* a query has listed a contact whose birthday falls on a Saturday
C4_Witness ==
    /\ last.op = "get_upcoming_birthdays"
    /\ last.out = "ok"
    /\ \E k \in 1..Len(last.ret) :
           \E d \in Occurrences(find(book, last.ret[k].name).birthday, clock) :
               /\ IsOccurrence(d, find(book, last.ret[k].name).birthday, clock)
               /\ DayOfWeek(d) = 5
               /\ last.ret[k].date = strftime(date_add(d, 2))

\* C5: get_upcoming_birthdays returns a list, whatever today is, when the
\* book holds a contact born on 29 February.
C5_Feb29NeverFails ==
    (/\ last.op = "get_upcoming_birthdays"
     /\ \E i \in 1..Len(book) :
            /\ book[i].value.birthday # None
            /\ book[i].value.birthday.month = 2
            /\ book[i].value.birthday.day = 29)
        => last.out = "ok"

\* C6: the book holds at most one Record per name, each under the key equal
\* to its name, and add_record of a name that is present fails and leaves
\* the book as it was.
C6_OneRecordPerName ==
    [][/\ \A i, j \in 1..Len(book') :
              /\ book'[i].value.name = book'[i].key
              /\ i # j => book'[i].key # book'[j].key
       /\ (last'.op = "add_record" /\ dict_contains(book, last'.args[1]))
              => (last'.out = "ValueError" /\ book' = book)]_vars

\* add_record has refused a name whose record holds a phone
C6_Witness ==
    /\ last.op = "add_record"
    /\ last.out = "ValueError"
    /\ Len(find(book, last.args[1]).phones) > 0

\* C7: edit_phone(old, new) changes the phones list in at most the one
\* position that holds old; with old present and new a valid number that is
\* not in the list, new takes the place of old and every other entry stays
\* where it was; with old absent the call fails and the list is unchanged.
C7_EditPhoneFrame ==
    [][last'.op = "edit_phone" =>
          LET old == last'.args[2]
              new == last'.args[3]
              before == find(book, last'.args[1]).phones
              after == find(book', last'.args[1]).phones
              present == \E j \in 1..Len(before) : before[j].value = old
          IN  /\ Len(after) = Len(before)
              /\ Cardinality({j \in 1..Len(before) : after[j] # before[j]}) <= 1
              /\ \A j \in 1..Len(before) : after[j] # before[j] => before[j].value = old
              /\ (/\ present
                  /\ new \in {PhoneA, PhoneB, PhoneC}
                  /\ \A j \in 1..Len(before) : before[j].value # new)
                     => /\ last'.out = "ok"
                        /\ \E j \in 1..Len(before) :
                               /\ before[j].value = old
                               /\ after[j].value = new
                               /\ \A k \in 1..Len(before) : k # j => after[k] = before[k]
              /\ ~present => (last'.out = "ValueError" /\ after = before)]_vars

\* edit_phone has put a number that was not in the list in the second place
C7_Witness ==
    /\ last.op = "edit_phone"
    /\ last.out = "ok"
    /\ last.args[2] # last.args[3]
    /\ Len(find(book, last.args[1]).phones) = 2
    /\ find(book, last.args[1]).phones[1].value # last.args[3]
    /\ find(book, last.args[1]).phones[2].value = last.args[3]

\* C8: delete of an absent name fails and leaves the book as it was; delete
\* of a present name removes that entry, so that find then yields None for
\* it, and find of every other name yields what it did.
C8_DeleteRemovesExactlyOne ==
    [][last'.op = "delete" =>
          IF ~dict_contains(book, last'.args[1])
          THEN last'.out = "KeyError" /\ book' = book
          ELSE /\ last'.out = "ok"
               /\ find(book', last'.args[1]) = None
               /\ Len(book') = Len(book) - 1
               /\ \A n \in Names \ {last'.args[1]} : find(book', n) = find(book, n)]_vars

\* delete has removed one of two records
C8_Witness ==
    /\ last.op = "delete"
    /\ last.out = "ok"
    /\ Len(book) = 1
    /\ ~dict_contains(book, last.args[1])

\* C9: no exception leaves main(): the loop ends only on close or exit.
C9_NoInputIsFatal == pc # "crashed"

\* C10: every reported date is a Monday to Friday, not before today, at most
\* days + 2 days after today and at most two days after the occurrence of
\* the birthday.
C10_ReportedDateBounds ==
    (last.op = "get_upcoming_birthdays" /\ last.out = "ok") =>
        \A k \in 1..Len(last.ret) :
            LET reported == strptime(last.ret[k].date)
                b == find(book, last.ret[k].name).birthday
            IN  /\ ~IsExc(reported)
                /\ DayOfWeek(reported) \in 0..4
                /\ toordinal(reported) - toordinal(clock) \in 0..(last.days + 2)
                /\ \E d \in Occurrences(b, clock) :
                       /\ IsOccurrence(d, b, clock)
                       /\ toordinal(reported) - toordinal(d) \in 0..2

\* a query has reported a date days + 2 days after today
C10_Witness ==
    /\ last.op = "get_upcoming_birthdays"
    /\ last.out = "ok"
    /\ \E k \in 1..Len(last.ret) :
           toordinal(strptime(last.ret[k].date)) - toordinal(clock) = last.days + 2

====
